---- MODULE Spec2Model ----
(***************************************************************************)
(* Model of etl.py: a one-shot batch job that loads credentials, creates   *)
(* a session, and writes five tables (songs, artists, users, time,         *)
(* songplays) derived from a song catalog and an event log.                *)
(*                                                                         *)
(* A DataFrame is a bag (multiset) of rows; a row is a function from       *)
(* column names to values.  The schema of a DataFrame read from JSON is    *)
(* the set of fields found in its records.                                 *)
(***************************************************************************)
EXTENDS Integers, FiniteSets, Sequences, Bags, TLC

VARIABLES
    cfg,        \* contents of dl.cfg: which of the two keys [KEYS] holds, or no file
    environ,    \* os.environ entries set by this process
    spark,      \* TRUE once create_spark_session() has returned
    pc,         \* position of the process in etl.py
    run,        \* number of the current invocation of the program
    tz,         \* UTC offset (seconds) of the local time zone of the driver
    songData,   \* records under input_data + song_data/A/A/*/*.json
    logData,    \* records under input_data + log_data/*/*/*.json
    tables,     \* contents of the five parquet outputs
    writer,     \* for each output, the invocation that last overwrote it (0: none)
    atStart     \* contents of the outputs when the current invocation started

vars == <<cfg, environ, spark, pc, run, tz, songData, logData,
          tables, writer, atStart>>

-----------------------------------------------------------------------------
(* Bounds of the model *)

MaxSongs == 2
MaxEvents == 2
MaxRuns == 2
MaxParts == 2

-----------------------------------------------------------------------------
(* Generic helpers on bags and rows *)

Restrict(r, cols) == [c \in cols |-> r[c]]

RECURSIVE BagSum(_, _)
BagSum(df, S) ==
    IF S = {} THEN 0
    ELSE LET r == CHOOSE x \in S : TRUE IN df[r] + BagSum(df, S \ {r})

Rows(df) == BagToSet(df)

Count(df) == BagSum(df, Rows(df))

BagsUpTo(S, n) ==
    { [r \in {x \in S : f[x] > 0} |-> f[r]] :
        f \in {g \in [S -> 0..n] : BagSum(g, S) <= n} }

RECURSIVE BagToSeq(_)
BagToSeq(df) ==
    IF Rows(df) = {} THEN <<>>
    ELSE LET r == CHOOSE x \in Rows(df) : TRUE
         IN  <<r>> \o BagToSeq(df (-) SetToBag({r}))

\* schema inferred by spark.read.json: every field found in some record
Schema(df) == UNION {DOMAIN r : r \in Rows(df)}

-----------------------------------------------------------------------------
(* DataFrame operations used by etl.py *)

\* df[c1, c2, ...] / df.select(...): fails (AnalysisException) unless Resolves
Resolves(cols, schema) == cols \subseteq schema

Project(df, cols) ==
    LET out == {Restrict(r, cols) : r \in Rows(df)}
    IN  [p \in out |-> BagSum(df, {r \in Rows(df) : Restrict(r, cols) = p})]

\* faulty variant: no deduplication at all
DropDuplicatesNone(df, keys) == {df}

\* dropDuplicates(keys): one row kept per key value; which one is not fixed
\* by the engine, so the result is any of these bags
DropDuplicates(df, keys) ==
    LET ks == {Restrict(r, keys) : r \in Rows(df)}
        pick == {f \in [ks -> Rows(df)] : \A k \in ks : Restrict(f[k], keys) = k}
    IN  {SetToBag({f[k] : k \in ks}) : f \in pick}

\* df.join(song_df, song_df.title == df.song): inner equi-join on that one
\* condition; every matching pair of rows yields one row
Join(df, song_df) ==
    LET pairs == {<<e, s>> \in Rows(df) \X Rows(song_df) : s["title"] = e["song"]}
        out == {p[1] @@ p[2] : p \in pairs}
    IN  [j \in out |->
           BagSum([p \in pairs |-> df[p[1]] * song_df[p[2]]],
                  {p \in pairs : p[1] @@ p[2] = j})]

-----------------------------------------------------------------------------
(* Time derivation: ts (epoch milliseconds) is held as [sec, ms], meaning   *)
(* sec * 1000 + ms.                                                        *)

\* get_timestamp: str(int(int(x)/1000))
get_timestamp(ts) == ts.sec

\* proleptic Gregorian date of a day number counted from 1970-01-01
CivilFromDays(days) ==
    LET z   == days + 719468
        era == z \div 146097
        doe == z - era * 146097
        yoe == (doe - doe \div 1460 + doe \div 36524 - doe \div 146096) \div 365
        doy == doe - (365 * yoe + yoe \div 4 - yoe \div 100)
        mp  == (5 * doy + 2) \div 153
        d   == doy - (153 * mp + 2) \div 5 + 1
        m   == IF mp < 10 THEN mp + 3 ELSE mp - 9
        y   == yoe + era * 400 + (IF m <= 2 THEN 1 ELSE 0)
    IN  [year |-> y, month |-> m, day |-> d]

DaysFromCivil(y0, m, d) ==
    LET y   == IF m <= 2 THEN y0 - 1 ELSE y0
        era == y \div 400
        yoe == y - era * 400
        mp  == IF m > 2 THEN m - 3 ELSE m + 9
        doy == (153 * mp + 2) \div 5 + d - 1
        doe == yoe * 365 + yoe \div 4 - yoe \div 100 + doy
    IN  era * 146097 + doe - 719468

\* get_datetime: str(datetime.fromtimestamp(int(x) / 1000.0)): the local wall
\* time, printed as <<Y, M, D, h, m, s>> and with a 6-digit fraction appended
\* only when the microsecond part is not zero
get_datetime(ts, offset) ==
    LET loc == ts.sec + offset
        civ == CivilFromDays(loc \div 86400)
        sod == loc % 86400
        hms == <<civ.year, civ.month, civ.day,
                 sod \div 3600, (sod % 3600) \div 60, sod % 60>>
    IN  IF ts.ms = 0 THEN hms ELSE Append(hms, ts.ms * 1000)

\* the engine's calendar functions applied to the datetime string
year(dt) == dt[1]
month(dt) == dt[2]
dayofmonth(dt) == dt[3]
hour(dt) == dt[4]

WeeksInYear(y) ==
    LET jan1 == ((DaysFromCivil(y, 1, 1) + 3) % 7) + 1
        leap == (y % 4 = 0 /\ y % 100 # 0) \/ y % 400 = 0
    IN  IF jan1 = 4 \/ (leap /\ jan1 = 3) THEN 53 ELSE 52

weekofyear(dt) ==
    LET days == DaysFromCivil(dt[1], dt[2], dt[3])
        wd   == ((days + 3) % 7) + 1
        ord  == days - DaysFromCivil(dt[1], 1, 1) + 1
        w    == (ord - wd + 10) \div 7
    IN  IF w < 1 THEN WeeksInYear(dt[1] - 1)
        ELSE IF w > WeeksInYear(dt[1]) THEN 1
        ELSE w

-----------------------------------------------------------------------------
(* Inputs: small pools of catalog and event records *)

TsA == [sec |-> 1541990258, ms |-> 796]   \* 2018-11-12 02:37:38.796 UTC
TsB == [sec |-> 1543620600, ms |-> 0]     \* 2018-11-30 23:30:00 UTC

SongCols == {"song_id", "title", "artist_id", "year", "duration",
             "artist_name", "artist_location", "artist_latitude",
             "artist_longitude"}

SongRec(sid, title, aid, yr, name) ==
    [song_id |-> sid, title |-> title, artist_id |-> aid, year |-> yr,
     duration |-> 269, artist_name |-> name, artist_location |-> "loc",
     artist_latitude |-> 0, artist_longitude |-> 0]

\* S1/"Setanta matins" is the catalog record of the end-to-end scenario; the
\* second record shares its title under another artist, the third shares its
\* song_id and artist_id with conflicting attributes
SongPool ==
    { SongRec("SOZCTXZ12AB0182364", "Setanta matins", "AR5KOSW1187FB35FF4", 0, "N1"),
      SongRec("S2", "Setanta matins", "A2", 2018, "N2"),
      SongRec("SOZCTXZ12AB0182364", "Other", "AR5KOSW1187FB35FF4", 1999, "N3") }

LogColsDocumented == {"userId", "firstName", "lastName", "gender", "level", "ts",
                      "page", "song", "location", "userAgent", "sessionId"}

\* a log whose records carry the session under the name the code selects
LogColsAsSelected == (LogColsDocumented \ {"sessionId"}) \cup {"ssessionId"}

EventRec(uid, page, song, ts, level, sess) ==
    [userId |-> uid, firstName |-> "F", lastName |-> "L", gender |-> "G",
     level |-> level, ts |-> ts, page |-> page, song |-> song,
     location |-> "...", userAgent |-> "...", sessionId |-> sess,
     ssessionId |-> sess]

\* the first is the event of the end-to-end scenario; the second is a play by
\* the same user at another level, of a title only the third catalog record
\* has; the third is not a play
EventPool ==
    { EventRec("10", "NextSong", "Setanta matins", TsA, "free", 582),
      EventRec("10", "NextSong", "Other", TsB, "paid", 583),
      EventRec("20", "Home", "Setanta matins", TsB, "free", 584) }

SongSchemas == {SongCols, SongCols \ {"artist_name"}}

LogSchemas == {LogColsDocumented, LogColsAsSelected,
               LogColsAsSelected \ {"ts"}, LogColsDocumented \ {"page"}}

TZOffsets == {0, 3600}

ConfigStates == {"ok", "nofile", "no_access_key", "no_secret_key"}

Tables == {"songs", "artists", "users", "time", "songplays"}

\* what an output holds before the first run: nothing, or rows of an older load
StaleRow == [stale |-> TRUE]

PriorContents == {EmptyBag, SetToBag({StaleRow})}

-----------------------------------------------------------------------------
(* Columns each derivation selects *)

SongsSelect == {"song_id", "title", "artist_id", "year", "duration"}

ArtistsSelect == {"artist_id", "artist_name", "artist_location",
                  "artist_latitude", "artist_longitude"}

UsersSelect == {"userId", "firstName", "lastName", "gender", "level"}

\* columns of the joined frame that the songplays select names with col(...)
SongplaysSelect == {"ts", "userId", "level", "song_id", "artist_id",
                    "ssessionId", "location", "userAgent", "year", "datetime"}

\* spark.read.json(path): fails when the path matches no record
Readable(data) == Rows(data) # {}

\* a row-by-row transformation f (a function on the rows of df) applied to df
MapRows(df, f) ==
    LET out == {f[r] : r \in Rows(df)}
    IN  [p \in out |-> BagSum(df, {r \in Rows(df) : f[r] = p})]

BagOfSeq(s) ==
    [x \in {s[i] : i \in DOMAIN s} |-> Cardinality({i \in DOMAIN s : s[i] = x})]

\* df.filter(df.page == 'NextSong')
IsNextSong(r) == r["page"] = "NextSong"

\* faulty variant: the page filter keeps every event
NoPageFilter(df) == df

FilterPage(df) ==
    LET keep == {r \in Rows(df) : IsNextSong(r)} IN [r \in keep |-> df[r]]

\* df.withColumn('timestamp', ...).withColumn('datetime', ...)
WithTimeColumns(df) ==
    MapRows(df, [r \in Rows(df) |->
                    r @@ [timestamp |-> get_timestamp(r["ts"]),
                          datetime  |-> get_datetime(r["ts"], tz)]])

TimeRow(r) ==
    [start_time |-> r["datetime"],
     hour       |-> hour(r["datetime"]),
     day        |-> dayofmonth(r["datetime"]),
     week       |-> weekofyear(r["datetime"]),
     month      |-> month(r["datetime"]),
     year       |-> year(r["datetime"])]

\* faulty variant: year taken from the event's datetime, as the time table does
SongplayRowYearOfEvent(j) ==
    [ts         |-> j["ts"],
     user_id    |-> j["userId"],
     level      |-> j["level"],
     song_id    |-> j["song_id"],
     artist_id  |-> j["artist_id"],
     session_id |-> j["ssessionId"],
     location   |-> j["location"],
     user_agent |-> j["userAgent"],
     year       |-> year(j["datetime"]),
     month      |-> month(j["datetime"])]

\* lines 110-120: the select that renames the joined columns
SongplayRow(j) ==
    [ts         |-> j["ts"],
     user_id    |-> j["userId"],
     level      |-> j["level"],
     song_id    |-> j["song_id"],
     artist_id  |-> j["artist_id"],
     session_id |-> j["ssessionId"],
     location   |-> j["location"],
     user_agent |-> j["userAgent"],
     year       |-> j["year"],
     month      |-> month(j["datetime"])]

Null == [null |-> TRUE]

\* faulty variant: the position within the partition alone
IdIgnoringPartition(part, idx) == [part |-> 0, idx |-> idx]

\* monotonically_increasing_id(): the partition number in the upper 31 bits
\* and the position of the row within its partition in the lower 33 bits,
\* held here as the pair
monotonically_increasing_id(part, idx) == [part |-> part, idx |-> idx]

\* withColumn('songplay_id', monotonically_increasing_id()): the rows lie in
\* some order, split into p consecutive partitions of near-equal size; the
\* number of partitions p is the engine's choice
WithSongplayId(df) ==
    LET s == BagToSeq(df)
        n == Len(s)
        Part(p, i) == ((i - 1) * p) \div n
        Idx(p, i) == Cardinality({k \in 1..(i - 1) : Part(p, k) = Part(p, i)})
        Row(p, i) == s[i] @@ [songplay_id |->
                                 monotonically_increasing_id(Part(p, i), Idx(p, i))]
    IN  {BagOfSeq([i \in 1..n |-> Row(p, i)]) : p \in 1..MaxParts}

-----------------------------------------------------------------------------
(* The process *)

Steps == <<"config", "session", "songs", "artists", "users", "time",
           "songplays", "done">>

\* faulty variant: main() calls process_log_data before process_song_data
StepsLogFirst == <<"config", "session", "users", "time", "songplays",
                   "songs", "artists", "done">>

Order == Steps

Position(step) == CHOOSE i \in DOMAIN Order : Order[i] = step

NextStep(step) == Order[Position(step) + 1]

\* faulty variant: parquet(path, 'append')
AppendMode(t, rows) ==
    /\ tables' = [tables EXCEPT ![t] = @ (+) rows]
    /\ writer' = [writer EXCEPT ![t] = run]

\* parquet(path, 'overwrite'): the output's contents are replaced; the write
\* of one table is taken as one step
Overwrite(t, rows) ==
    /\ tables' = [tables EXCEPT ![t] = rows]
    /\ writer' = [writer EXCEPT ![t] = run]

\* faulty variant: the exception is caught and the run goes on
Swallow(step) ==
    /\ pc' = NextStep(step)
    /\ UNCHANGED <<tables, writer>>

\* an exception propagates out of main(): nothing catches it
Raise(step) ==
    /\ pc' = "aborted"
    /\ UNCHANGED <<tables, writer>>

Init ==
    /\ cfg \in ConfigStates
    /\ environ = {}
    /\ spark = FALSE
    /\ pc = "config"
    /\ run = 1
    /\ tz \in TZOffsets
    /\ \E sch \in SongSchemas :
         songData \in BagsUpTo({Restrict(r, sch) : r \in SongPool}, MaxSongs)
    /\ \E sch \in LogSchemas :
         logData \in BagsUpTo({Restrict(r, sch) : r \in EventPool}, MaxEvents)
    /\ \E p \in PriorContents : tables = [t \in Tables |-> p]
    \* with a configuration that stops the program before any input is read,
    \* one record of input is sample enough
    /\ cfg # "ok" => Count(songData) + Count(logData) <= 1
    /\ writer = [t \in Tables |-> 0]
    /\ atStart = tables

\* faulty variant: a missing key falls back to a default
HasKeyOrFallback(k) == TRUE

\* lines 9-13: config.read ignores a missing file; config['KEYS'][k] raises
\* KeyError when the section or the key is absent
HasKey(k) ==
    \/ cfg = "ok"
    \/ cfg = "no_secret_key" /\ k = "AWS_ACCESS_KEY_ID"
    \/ cfg = "no_access_key" /\ k = "AWS_SECRET_ACCESS_KEY"

LoadConfig ==
    /\ pc = "config"
    /\ IF ~HasKey("AWS_ACCESS_KEY_ID")
       THEN /\ environ' = environ
            /\ pc' = "aborted"
       ELSE IF ~HasKey("AWS_SECRET_ACCESS_KEY")
       THEN /\ environ' = environ \cup {"AWS_ACCESS_KEY_ID"}
            /\ pc' = "aborted"
       ELSE /\ environ' = environ \cup {"AWS_ACCESS_KEY_ID", "AWS_SECRET_ACCESS_KEY"}
            /\ pc' = NextStep("config")
    /\ UNCHANGED <<cfg, spark, run, tz, songData, logData,
                   tables, writer, atStart>>

\* line 131: create_spark_session()
CreateSession ==
    /\ pc = "session"
    /\ spark' = TRUE
    /\ pc' = NextStep("session")
    /\ UNCHANGED <<cfg, environ, run, tz, songData, logData,
                   tables, writer, atStart>>

\* lines 34-45
WriteSongs ==
    /\ pc = "songs"
    /\ IF Readable(songData) /\ Resolves(SongsSelect, Schema(songData))
       THEN /\ \E songs_table \in
                   DropDuplicates(Project(songData, SongsSelect), {"song_id"}) :
                  Overwrite("songs", songs_table)
            /\ pc' = NextStep("songs")
       ELSE Raise("songs")
    /\ UNCHANGED <<cfg, environ, spark, run, tz, songData, logData, atStart>>

\* lines 47-53
WriteArtists ==
    /\ pc = "artists"
    /\ IF Resolves(ArtistsSelect, Schema(songData))
       THEN /\ \E artists_table \in
                   DropDuplicates(Project(songData, ArtistsSelect), {"artist_id"}) :
                  Overwrite("artists", artists_table)
            /\ pc' = NextStep("artists")
       ELSE Raise("artists")
    /\ UNCHANGED <<cfg, environ, spark, run, tz, songData, logData, atStart>>

\* lines 66-80
WriteUsers ==
    /\ pc = "users"
    /\ IF /\ Readable(logData)
          /\ Resolves({"page"}, Schema(logData))
          /\ Resolves(UsersSelect, Schema(logData))
       THEN /\ \E users_table \in
                   DropDuplicates(Project(FilterPage(logData), UsersSelect),
                                  {"userId"}) :
                  Overwrite("users", users_table)
            /\ pc' = NextStep("users")
       ELSE Raise("users")
    /\ UNCHANGED <<cfg, environ, spark, run, tz, songData, logData, atStart>>

\* lines 82-102
WriteTime ==
    /\ pc = "time"
    /\ IF Resolves({"ts"}, Schema(logData))
       THEN /\ \E time_table \in
                   LET df == WithTimeColumns(FilterPage(logData))
                   IN  DropDuplicates(
                           MapRows(df, [r \in Rows(df) |-> TimeRow(r)]),
                           {"start_time"}) :
                  Overwrite("time", time_table)
            /\ pc' = NextStep("time")
       ELSE Raise("time")
    /\ UNCHANGED <<cfg, environ, spark, run, tz, songData, logData, atStart>>

\* lines 104-125
WriteSongplays ==
    /\ pc = "songplays"
    /\ IF /\ Readable(songData)
          /\ Resolves({"title"}, Schema(songData))
          /\ Resolves({"song"}, Schema(logData))
          /\ Resolves(SongplaysSelect,
                      Schema(logData) \cup {"timestamp", "datetime"}
                          \cup Schema(songData))
       THEN /\ \E songplays_table \in
                   LET df == Join(WithTimeColumns(FilterPage(logData)), songData)
                   IN  WithSongplayId(
                           MapRows(df, [j \in Rows(df) |-> SongplayRow(j)])) :
                  Overwrite("songplays", songplays_table)
            /\ pc' = NextStep("songplays")
       ELSE Raise("songplays")
    /\ UNCHANGED <<cfg, environ, spark, run, tz, songData, logData, atStart>>

Running == {"config", "session", "songs", "artists", "users", "time", "songplays"}

\* the process or the engine dies (section 7, class d): nothing is rolled back
Crash ==
    /\ pc \in Running
    /\ pc' = "crashed"
    /\ UNCHANGED <<cfg, environ, spark, run, tz, songData, logData,
                   tables, writer, atStart>>

\* the program is started again on the same input, after a run that came to
\* its own end: a new process
Rerun ==
    /\ pc \in {"done", "aborted"}
    /\ run < MaxRuns
    /\ run' = run + 1
    /\ pc' = "config"
    /\ environ' = {}
    /\ spark' = FALSE
    /\ atStart' = tables
    /\ UNCHANGED <<cfg, tz, songData, logData, tables, writer>>

\* one invocation of the program
Next ==
    \/ LoadConfig
    \/ CreateSession
    \/ WriteSongs
    \/ WriteArtists
    \/ WriteUsers
    \/ WriteTime
    \/ WriteSongplays
    \/ Crash

Spec == Init /\ [][Next]_vars

\* up to MaxRuns invocations, one after the other, on the same input
NextRerun ==
    \/ LoadConfig
    \/ CreateSession
    \/ WriteSongs
    \/ WriteArtists
    \/ WriteUsers
    \/ WriteTime
    \/ WriteSongplays
    \/ Crash
    \/ Rerun

SpecRerun == Init /\ [][NextRerun]_vars

-----------------------------------------------------------------------------
(* Vocabulary of the properties *)

Written(t) == writer[t] > 0

WrittenNow(t) == writer[t] = run

RunOver == pc \in {"done", "aborted"}

TableOrder == <<"songs", "artists", "users", "time", "songplays">>

TablePos(t) == CHOOSE i \in DOMAIN TableOrder : TableOrder[i] = t

ScenarioSong ==
    SongRec("SOZCTXZ12AB0182364", "Setanta matins", "AR5KOSW1187FB35FF4", 0, "N1")

ScenarioEvent ==
    Restrict(EventRec("10", "NextSong", "Setanta matins", TsA, "free", 582),
             LogColsDocumented)

HomeEvent(sch) ==
    Restrict(EventRec("20", "Home", "Setanta matins", TsB, "free", 584), sch)

Plays == {e \in Rows(logData) : "page" \in DOMAIN e /\ e["page"] = "NextSong"}

IsSongplay(r) ==
    DOMAIN r = {"ts", "user_id", "level", "song_id", "artist_id", "session_id",
                "location", "user_agent", "year", "month", "songplay_id"}

\* the songplays row r carries the event-side values of the event e
FromEvent(r, e) ==
    /\ IsSongplay(r)
    /\ r["ts"] = e["ts"]
    /\ r["user_id"] = e["userId"]
    /\ r["level"] = e["level"]
    /\ r["location"] = e["location"]
    /\ r["user_agent"] = e["userAgent"]
    /\ \/ "ssessionId" \in DOMAIN e /\ r["session_id"] = e["ssessionId"]
       \/ "sessionId" \in DOMAIN e /\ r["session_id"] = e["sessionId"]

\* the songplays row r carries the catalog-side values of the song record s
FromSong(r, s) ==
    /\ IsSongplay(r)
    /\ r["song_id"] = s["song_id"]
    /\ r["artist_id"] = s["artist_id"]

-----------------------------------------------------------------------------
\* C1: with a valid configuration, a catalog of exactly the scenario's song
\* record and a log of exactly the scenario's NextSong event (fields as
\* documented, the session under sessionId), a run that has ended leaves
\* songplays with exactly one row, whose song_id is the song's, whose user_id
\* is the event's userId, and whose songplay_id is not null.
C1_EndToEnd ==
    ( /\ cfg = "ok"
      /\ RunOver
      /\ songData = SetToBag({ScenarioSong})
      /\ logData = SetToBag({ScenarioEvent}) )
    => /\ Count(tables["songplays"]) = 1
       /\ \A r \in Rows(tables["songplays"]) :
            /\ IsSongplay(r)
            /\ r["song_id"] = ScenarioSong["song_id"]
            /\ r["user_id"] = ScenarioEvent["userId"]
            /\ r["songplay_id"] # Null

\* C2: every row of users, time and songplays written by a run comes from an
\* event whose page is "NextSong".
C2_FilterProperty ==
    /\ Written("users") =>
         \A r \in Rows(tables["users"]) :
            \E e \in Plays : \A c \in UsersSelect : r[c] = e[c]
    /\ Written("time") =>
         \A r \in Rows(tables["time"]) :
            \E e \in Plays : r["start_time"] = get_datetime(e["ts"], tz)
    /\ Written("songplays") =>
         \A r \in Rows(tables["songplays"]) :
            \E e \in Plays : FromEvent(r, e)

\* C2 witness: a complete run over a log that holds an event that is not a
\* play (its song even matches a catalog title), with all three tables
\* written and not empty.
C2_Witness ==
    /\ pc = "done"
    /\ HomeEvent(LogColsAsSelected) \in Rows(logData)
    /\ Plays # {}
    /\ Rows(tables["users"]) # {}
    /\ Rows(tables["time"]) # {}
    /\ Rows(tables["songplays"]) # {}
    /\ \E s \in Rows(songData) : s["title"] = HomeEvent(LogColsAsSelected)["song"]

\* one row per key in the written table t, each the projection of an input row
OneRowPerKey(t, key) ==
    \A r \in Rows(tables[t]) :
        /\ tables[t][r] = 1
        /\ \A q \in Rows(tables[t]) : q[key] = r[key] => q = r

\* C3: each written table holds at most one row per key (songs per song_id,
\* artists per artist_id, users per userId, time per start_time), and every
\* row it holds is an input row with that key.
C3_DedupProperty ==
    /\ Written("songs") =>
         /\ OneRowPerKey("songs", "song_id")
         /\ \A r \in Rows(tables["songs"]) :
               \E s \in Rows(songData) : \A c \in SongsSelect : r[c] = s[c]
    /\ Written("artists") =>
         /\ OneRowPerKey("artists", "artist_id")
         /\ \A r \in Rows(tables["artists"]) :
               \E s \in Rows(songData) : \A c \in ArtistsSelect : r[c] = s[c]
    /\ Written("users") =>
         /\ OneRowPerKey("users", "userId")
         /\ \A r \in Rows(tables["users"]) :
               \E e \in Plays : \A c \in UsersSelect : r[c] = e[c]
    /\ Written("time") =>
         /\ OneRowPerKey("time", "start_time")
         /\ \A r \in Rows(tables["time"]) :
               \E e \in Plays : r = TimeRow(
                   [datetime |-> get_datetime(e["ts"], tz)])

\* C3 witness: a complete run whose catalog holds two records under one
\* song_id and one artist_id with different titles and artist names, and
\* whose log holds two plays of one user at different levels.
C3_Witness ==
    /\ pc = "done"
    /\ \E s1, s2 \in Rows(songData) :
          /\ s1["song_id"] = s2["song_id"] /\ s1["title"] # s2["title"]
          /\ s1["artist_id"] = s2["artist_id"]
          /\ s1["artist_name"] # s2["artist_name"]
    /\ \E e1, e2 \in Plays : e1["userId"] = e2["userId"] /\ e1["level"] # e2["level"]

\* C4: with a valid configuration and inputs with the documented fields, a
\* run that has ended leaves, for every NextSong event, as many songplays
\* rows carrying that event as there are catalog records whose title equals
\* the event's song (counted with multiplicity).
C4_JoinFanOut ==
    ( /\ cfg = "ok"
      /\ RunOver
      /\ Readable(songData) /\ Schema(songData) = SongCols
      /\ Readable(logData) /\ Schema(logData) = LogColsDocumented )
    => \A e \in Plays :
          BagSum(tables["songplays"],
                 {r \in Rows(tables["songplays"]) : FromEvent(r, e)})
          = logData[e] * BagSum(songData,
                                {s \in Rows(songData) : s["title"] = e["song"]})

\* the same count, for a log whose records name the session as the code does
C4_FanOutAsSelected ==
    ( /\ pc = "done" )
    => \A e \in Plays :
          BagSum(tables["songplays"],
                 {r \in Rows(tables["songplays"]) : FromEvent(r, e)})
          = logData[e] * BagSum(songData,
                                {s \in Rows(songData) : s["title"] = e["song"]})

\* the derivation of table t names a column that the frame it is applied to
\* does not have
MissingFor(t) ==
    LET song == Schema(songData)
        log  == Schema(logData)
    IN  CASE t = "songs"   -> Readable(songData) /\ ~(SongsSelect \subseteq song)
          [] t = "artists" -> Readable(songData) /\ ~(ArtistsSelect \subseteq song)
          [] t = "users"   -> Readable(logData)
                              /\ ~(({"page"} \cup UsersSelect) \subseteq log)
          [] t = "time"    -> Readable(logData) /\ ~({"ts"} \subseteq log)
          [] t = "songplays" ->
                 /\ Readable(songData) /\ Readable(logData)
                 /\ \/ ~({"title", "song_id", "artist_id", "year"} \subseteq song)
                    \/ ~({"song", "ts", "userId", "level", "ssessionId",
                          "location", "userAgent"} \subseteq log)

StepsAfter(t) ==
    {TableOrder[i] : i \in (TablePos(t) + 1)..Len(TableOrder)} \cup {"done"}

\* C5: when the derivation of a table names a column its frame lacks, the run
\* never gets past that table's step, and neither that table nor any later
\* one is written by the run: each still holds what it held when the run
\* started.
C5_MissingColumnFatal ==
    \A t \in Tables :
        MissingFor(t) =>
            /\ pc \notin StepsAfter(t)
            /\ \A u \in Tables :
                  TablePos(u) >= TablePos(t) =>
                      ~WrittenNow(u) /\ tables[u] = atStart[u]

\* C5 witness: the log has no ts column; users has been written by this run,
\* then the run aborted at the time table, which keeps its earlier rows.
C5_Witness ==
    /\ pc = "aborted"
    /\ cfg = "ok"
    /\ MissingFor("time")
    /\ ~MissingFor("users")
    /\ WrittenNow("users")
    /\ tables["users"] # atStart["users"]
    /\ tables["time"] = SetToBag({StaleRow})

\* C6: the tables written by the current run are a prefix of the order
\* songs, artists, users, time, songplays, and every other table holds what it
\* held when the run started.
C6_WriteOrderPrefix ==
    \A t \in Tables :
        /\ WrittenNow(t) => \A u \in Tables : TablePos(u) < TablePos(t) => WrittenNow(u)
        /\ ~WrittenNow(t) => tables[t] = atStart[t]

\* C6 witness: a second run crashed between the users and the time writes:
\* three tables hold the second run's rows, two hold the first run's.
C6_Witness ==
    /\ pc = "crashed"
    /\ run = 2
    /\ WrittenNow("users")
    /\ writer["time"] = 1
    /\ writer["songplays"] = 1
    /\ tables["songs"] # atStart["songs"]

\* C7: when a second (or later) run over the same input has ended after it
\* wrote songs, artists, users and time, each of these tables holds exactly
\* what it held when that run started, that is, what the run before it left
\* (the claim says so of all five tables; songplays is left out here, so that
\* the songplay_id values play no part).
C7_Idempotent ==
    (run >= 2 /\ RunOver /\ WrittenNow("time")) =>
        \A t \in Tables \ {"songplays"} : tables[t] = atStart[t]

\* input rows that share a dedup key agree on every selected column
AgreeOn(rows, key, cols) ==
    \A r, q \in rows :
        (key \in DOMAIN r /\ r[key] = q[key]) =>
            \A c \in cols \cap DOMAIN r : r[c] = q[c]

NoKeyConflict ==
    /\ AgreeOn(Rows(songData), "song_id", SongsSelect)
    /\ AgreeOn(Rows(songData), "artist_id", ArtistsSelect)
    /\ AgreeOn(Plays, "userId", UsersSelect)

DropSongplayId(df) ==
    MapRows(df, [r \in Rows(df) |-> Restrict(r, DOMAIN r \ {"songplay_id"})])

\* C7 (amended): when a second (or later) run over the same input has ended
\* and no two input rows that share a dedup key disagree on a selected column,
\* songs, artists, users and time hold exactly what they held when that run
\* started, and songplays holds the same rows up to their songplay_id.
C7_IdempotentWithoutConflicts ==
    (run >= 2 /\ RunOver /\ NoKeyConflict) =>
        /\ \A t \in Tables \ {"songplays"} : tables[t] = atStart[t]
        /\ DropSongplayId(tables["songplays"]) = DropSongplayId(atStart["songplays"])

\* C7 witness: a second complete run over a catalog with two records of one
\* title and a log with the same play twice (one userId, one start_time, four
\* joined rows); the songplay_id values differ from the first run's.
C7_Witness ==
    /\ run = 2
    /\ pc = "done"
    /\ NoKeyConflict
    /\ \E e \in Plays : logData[e] = 2
    /\ Count(tables["songplays"]) = 4
    /\ tables["songplays"] # atStart["songplays"]
    /\ tables["users"] = atStart["users"]

\* C8: with the configuration file absent or lacking one of the two keys, the
\* session is never created, the process never gets past the configuration
\* step, and no table is ever written.
C8_ConfigFailureFatal ==
    cfg # "ok" =>
        /\ spark = FALSE
        /\ pc \in {"config", "aborted", "crashed"}
        /\ tables = atStart
        /\ \A t \in Tables : writer[t] = 0

\* C8 witness: only the secret key is missing; the process has aborted after
\* exporting the access key, with no session.
C8_Witness ==
    /\ cfg = "no_secret_key"
    /\ pc = "aborted"
    /\ environ = {"AWS_ACCESS_KEY_ID"}
    /\ spark = FALSE

\* C9: every row of a written songplays table has a songplay_id that is not
\* null, and no two rows of it share a songplay_id.
C9_SongplayIdUnique ==
    Written("songplays") =>
        \A r \in Rows(tables["songplays"]) :
            /\ IsSongplay(r)
            /\ r["songplay_id"] # Null
            /\ tables["songplays"][r] = 1
            /\ \A q \in Rows(tables["songplays"]) :
                  q["songplay_id"] = r["songplay_id"] => q = r

\* C9 witness: one play fanned out to two rows that lie in two partitions.
C9_Witness ==
    /\ pc = "done"
    /\ Count(logData) = 1
    /\ Count(tables["songplays"]) = 2
    /\ \E r, q \in Rows(tables["songplays"]) :
          /\ r["song_id"] # q["song_id"]
          /\ r["songplay_id"].part # q["songplay_id"].part

\* C10: in every row of a written songplays table, year is the year field of
\* a catalog record joined to a play (same title, the row's song_id and
\* artist_id) and month is the calendar month of that play's local datetime.
C10_PartitionColumns ==
    Written("songplays") =>
        \A r \in Rows(tables["songplays"]) :
            \E e \in Plays : \E s \in Rows(songData) :
                /\ s["title"] = e["song"]
                /\ FromEvent(r, e)
                /\ FromSong(r, s)
                /\ r["year"] = s["year"]
                /\ r["month"] = CivilFromDays((e["ts"].sec + tz) \div 86400).month

\* C10 witness: a songplays row and the time row of the same play agree on
\* the month and differ on the year.
C10_Witness ==
    /\ pc = "done"
    /\ \E r \in Rows(tables["songplays"]) : \E t \in Rows(tables["time"]) :
          \E e \in Plays :
              /\ FromEvent(r, e)
              /\ t["start_time"] = get_datetime(e["ts"], tz)
              /\ r["month"] = t["month"]
              /\ r["year"] # t["year"]

====
